---- MODULE Spec2Model ----
(***************************************************************************)
(* Model of authenticityfinder.py: Route.fetch_route,                      *)
(* Route.calculate_waypoints, POIloc.search_nearby,                        *)
(* POIloc.search_waypoints and main.                                       *)
(*                                                                         *)
(* Distances.  A step's distance['value'] is an integer number of meters.  *)
(* The code divides it by 1609.34 and accumulates miles.  The model keeps  *)
(* every mileage as an exact rational with the fixed denominator           *)
(* MileNum: the mileage x is the integer x * MileNum, so that              *)
(* value / 1609.34 = value * MileDen / MileNum is the integer              *)
(* value * MileDen.  Floating-point rounding is not modelled.              *)
(***************************************************************************)
EXTENDS Integers, Sequences, FiniteSets

VARIABLES
    pc,                    \* position of the running code
    caller,                \* "main", or "direct" for a direct call of calculate_waypoints
    route_data,            \* main's route_data / calculate_waypoints' route argument
    interval_miles,        \* calculate_waypoints' interval_miles argument
    waypoints,             \* Route.waypoints (POIloc.waypoints is the same list)
    accumulated_distance,  \* calculate_waypoints' accumulator, in 1/MileNum mile
    leg_i,                 \* index of the leg the outer loop is at
    step_i,                \* index of the step the inner loop is at
    exception,             \* the exception that ended the run, "none" when there is none
    poi_results,           \* search_waypoints' poi_results
    wp_i,                  \* index of the waypoint search_waypoints' loop is at
    stdout,                \* the lines printed so far
    calls,                 \* history: the requests.get calls issued, in order
    completed,             \* history: how many of them have returned
    route_status,          \* history: status code of the routing response, 0 before it
    responses,             \* history: the places responses, in order of arrival
    trace                  \* history: one record per step calculate_waypoints processed

vars == <<pc, caller, route_data, interval_miles, waypoints, accumulated_distance,
          leg_i, step_i, exception, poi_results, wp_i, stdout, calls, completed,
          route_status, responses, trace>>

----------------------------------------------------------------------------
(* Bounds of the model *)

MaxSteps == 3
MaxLegs == 2

(* Program constants *)

\* 1609.34 = MileNum / MileDen
MileNum == 160934
MileDen == 100
\* main: interval_miles=25
MainIntervalMiles == 25
StatusOk == 200

----------------------------------------------------------------------------
(* Inputs *)

\* step distances in meters: 0, about 20 miles, exactly 50 miles, exactly 150 miles
StepMeters == {0, 32187, 80467, 241401}
\* step distances of the routes the routing provider answers main with
MainStepMeters == {0, 32187, 80467}
\* interval_miles of a direct call
IntervalChoices == {-25, 0, 25, 50}
RouteStatuses == {200, 404}

Cafe == [has_name |-> TRUE, name |-> "Cafe"]
Unnamed == [has_name |-> FALSE, name |-> ""]
\* the 'results' lists a places response may carry
ResultLists == {<<>>, <<Cafe>>, <<Cafe, Unnamed>>, <<Unnamed, Cafe>>}
\* the places responses: a success with any of these lists, or a failure, whose
\* body the code never reads
SearchResponses ==
    {[status |-> 200, results |-> r] : r \in ResultLists}
        \cup {[status |-> 500, results |-> <<Cafe>>]}

ValueSeqs(values) == UNION {[1..n -> values] : n \in 0..MaxSteps}

\* the ways to cut n steps into k legs: c[l] is the number of steps in legs 1..l
CutsFor(k, n) ==
    IF k = 0 THEN (IF n = 0 THEN {<<>>} ELSE {})
    ELSE {c \in [1..k -> 0..n] :
            /\ c[k] = n
            /\ \A l \in 1..(k-1) : c[l] <= c[l+1]}

MkStep(meters, legIdx, stepIdx) ==
    [distance |-> [value |-> meters],
     end_location |-> [lat |-> legIdx, lng |-> stepIdx]]

MkLeg(vals, lo, hi, legIdx) ==
    [steps |-> [j \in 1..(hi - lo) |-> MkStep(vals[lo + j], legIdx, j)]]

MkRoute(vals, c, k) ==
    [legs |-> [l \in 1..k |-> MkLeg(vals, IF l = 1 THEN 0 ELSE c[l-1], c[l], l)]]

\* every route of at most MaxLegs legs and MaxSteps steps in all
RoutesOver(values) ==
    UNION {UNION {{MkRoute(v, c, k) : c \in CutsFor(k, Len(v))} : k \in 0..MaxLegs}
           : v \in ValueSeqs(values)}

\* response.json() of the directions endpoint: a 'routes' list, possibly empty
BodiesOver(values) ==
    {[is_none |-> FALSE, routes |-> <<>>]}
        \cup {[is_none |-> FALSE, routes |-> <<r>>] : r \in RoutesOver(values)}

None == [is_none |-> TRUE, routes |-> <<>>]

----------------------------------------------------------------------------
(* Pure parts of the code *)

\* step['distance']['value'] / 1609.34, in 1/MileNum mile
StepDistance(step) == step.distance.value * MileDen

\* interval_miles in 1/MileNum mile
Scaled(miles) == miles * MileNum

ReachedIntervalLoose(acc, interval) == acc > 0

\* accumulated_distance >= interval_miles
ReachedInterval(acc, interval) == acc >= Scaled(interval)

DecrementForgotten(acc, interval) == acc

\* accumulated_distance -= interval_miles
Decrement(acc, interval) == acc - Scaled(interval)

\* (step['end_location']['lat'], step['end_location']['lng'])
EndLocation(step) == <<step.end_location.lat, step.end_location.lng>>

\* the body of the inner loop: the accumulator and the waypoints after one step
ProcessStep(acc, wps, step, interval) ==
    LET added == acc + StepDistance(step)
    IN  IF ReachedInterval(added, interval)
        THEN [acc |-> Decrement(added, interval),
              waypoints |-> Append(wps, EndLocation(step)),
              added |-> added]
        ELSE [acc |-> added, waypoints |-> wps, added |-> added]

FetchRouteKeepsBody(status, body) == body

\* fetch_route's return value
FetchRouteResult(status, body) == IF status = StatusOk THEN body ELSE None

\* not route_data
Falsy(data) == data.is_none

SearchNearbyKeepsBody(status, results) == results

\* search_nearby's return value
SearchNearbyResult(status, results) == IF status = StatusOk THEN results ELSE <<>>

RECURSIVE ExtendUnique(_, _)
ExtendUnique(list, results) ==
    IF results = <<>> THEN list
    ELSE ExtendUnique(IF \E i \in 1..Len(list) : list[i] = Head(results)
                      THEN list ELSE Append(list, Head(results)),
                      Tail(results))

\* poi_results.extend(results)
Extend(list, results) == list \o results

SearchLocationReversed(wps, i) == wps[Len(wps) + 1 - i]

\* the waypoint the i-th iteration of search_waypoints' loop searches
SearchLocation(wps, i) == wps[i]

\* poi.get('name', 'No name available')
PoiName(poi) == IF poi.has_name THEN poi.name ELSE "No name available"

\* one printed line: its kind, its text and the status code it reports (0: none)
Line(kind, text, status) == [kind |-> kind, text |-> text, status |-> status]

\* print(f"Error fetching route: {response.status_code}")
RouteErrorLine(status) == Line("route_error", "Error fetching route", status)
\* print(f"Error fetching POIs: {response.status_code}")
SearchErrorLine(status) == Line("search_error", "Error fetching POIs", status)
\* print("Failed to fetch route data.")
FailedLine == Line("failed", "Failed to fetch route data.", 0)

\* the lines of main's output loop
PrintedNames(results) == [i \in 1..Len(results) |-> Line("poi", PoiName(results[i]), 0)]

\* route['routes'][0]['legs']
Legs(data) == data.routes[1].legs

----------------------------------------------------------------------------
(* Initial states *)

Idle ==
    /\ waypoints = <<>>
    /\ accumulated_distance = 0
    /\ leg_i = 0
    /\ step_i = 0
    /\ exception = "none"
    /\ poi_results = <<>>
    /\ wp_i = 0
    /\ stdout = <<>>
    /\ calls = <<>>
    /\ completed = 0
    /\ route_status = 0
    /\ responses = <<>>
    /\ trace = <<>>

\* main is entered: Route(startloc, endloc) has set waypoints to []
Init ==
    /\ pc = "main"
    /\ caller = "main"
    /\ route_data = None
    /\ interval_miles = 0
    /\ Idle

\* calculate_waypoints is called on a fresh Route with any route and interval
InitWP ==
    /\ pc = "calc_enter"
    /\ caller = "direct"
    /\ route_data \in BodiesOver(StepMeters)
    /\ interval_miles \in IntervalChoices
    /\ Idle

----------------------------------------------------------------------------
(* Route.calculate_waypoints *)

\* lines 120-123: reset, then route['routes'][0] (IndexError on an empty list)
CalcEnter ==
    /\ pc = "calc_enter"
    /\ waypoints' = <<>>
    /\ accumulated_distance' = 0
    /\ trace' = <<>>
    /\ IF route_data.routes = <<>>
       THEN /\ pc' = "raised"
            /\ exception' = "IndexError"
            /\ UNCHANGED <<leg_i, step_i>>
       ELSE /\ pc' = "calc_loop"
            /\ leg_i' = 1
            /\ step_i' = 1
            /\ UNCHANGED exception
    /\ UNCHANGED <<caller, route_data, interval_miles, poi_results, wp_i, stdout,
                   calls, completed, route_status, responses>>

\* lines 124-130: one iteration of the inner loop
CalcStep ==
    /\ pc = "calc_loop"
    /\ leg_i <= Len(Legs(route_data))
    /\ step_i <= Len(Legs(route_data)[leg_i].steps)
    /\ LET step == Legs(route_data)[leg_i].steps[step_i]
           r == ProcessStep(accumulated_distance, waypoints, step, interval_miles)
       IN  /\ accumulated_distance' = r.acc
           /\ waypoints' = r.waypoints
           /\ trace' = Append(trace,
                  [leg |-> leg_i, step |-> step_i, end_location |-> EndLocation(step),
                   distance |-> StepDistance(step), acc_in |-> accumulated_distance,
                   added |-> r.added, emitted |-> Len(r.waypoints) - Len(waypoints),
                   acc_out |-> r.acc])
    /\ step_i' = step_i + 1
    /\ UNCHANGED <<pc, caller, route_data, interval_miles, leg_i, exception,
                   poi_results, wp_i, stdout, calls, completed, route_status,
                   responses>>

\* line 123: the inner loop is exhausted, the outer loop takes the next leg
CalcNextLeg ==
    /\ pc = "calc_loop"
    /\ leg_i <= Len(Legs(route_data))
    /\ step_i > Len(Legs(route_data)[leg_i].steps)
    /\ leg_i' = leg_i + 1
    /\ step_i' = 1
    /\ UNCHANGED <<pc, caller, route_data, interval_miles, waypoints,
                   accumulated_distance, exception, poi_results, wp_i, stdout,
                   calls, completed, route_status, responses, trace>>

\* the outer loop is exhausted: calculate_waypoints returns; in main, lines
\* 234-235 and 190 follow (POIloc(route.waypoints, ...), poi_results = [])
CalcReturn ==
    /\ pc = "calc_loop"
    /\ leg_i > Len(Legs(route_data))
    /\ IF caller = "main"
       THEN /\ pc' = "search_loop"
            /\ poi_results' = <<>>
            /\ wp_i' = 1
       ELSE /\ pc' = "returned"
            /\ UNCHANGED <<poi_results, wp_i>>
    /\ UNCHANGED <<caller, route_data, interval_miles, waypoints,
                   accumulated_distance, leg_i, step_i, exception, stdout, calls,
                   completed, route_status, responses, trace>>

NextWP == CalcEnter \/ CalcStep \/ CalcNextLeg \/ CalcReturn

SpecWP == InitWP /\ [][NextWP]_vars

----------------------------------------------------------------------------
(* main, Route.fetch_route, POIloc.search_waypoints, POIloc.search_nearby *)

DirectionsCall == [api |-> "directions", location |-> <<0, 0>>]
NearbyCall(location) == [api |-> "nearbysearch", location |-> location]

\* line 101: requests.get(url) is issued and blocks
FetchRouteSend ==
    /\ pc = "main"
    /\ calls' = Append(calls, DirectionsCall)
    /\ pc' = "await_route"
    /\ UNCHANGED <<caller, route_data, interval_miles, waypoints,
                   accumulated_distance, leg_i, step_i, exception, poi_results,
                   wp_i, stdout, completed, route_status, responses, trace>>

\* lines 101-106, 224: the response arrives and fetch_route returns
FetchRouteRecv ==
    /\ pc = "await_route"
    /\ \E status \in RouteStatuses, body \in BodiesOver(MainStepMeters) :
        /\ route_status' = status
        /\ route_data' = FetchRouteResult(status, body)
        /\ stdout' = IF status = StatusOk THEN stdout
                     ELSE Append(stdout, RouteErrorLine(status))
    /\ completed' = completed + 1
    /\ pc' = "main_check"
    /\ UNCHANGED <<caller, interval_miles, waypoints, accumulated_distance, leg_i,
                   step_i, exception, poi_results, wp_i, calls, responses, trace>>

\* lines 226-228
MainAbort ==
    /\ pc = "main_check"
    /\ Falsy(route_data)
    /\ stdout' = Append(stdout, FailedLine)
    /\ pc' = "done"
    /\ UNCHANGED <<caller, route_data, interval_miles, waypoints,
                   accumulated_distance, leg_i, step_i, exception, poi_results,
                   wp_i, calls, completed, route_status, responses, trace>>

\* line 231: route.calculate_waypoints(route_data, interval_miles=25) is entered
MainCalc ==
    /\ pc = "main_check"
    /\ ~Falsy(route_data)
    /\ interval_miles' = MainIntervalMiles
    /\ pc' = "calc_enter"
    /\ UNCHANGED <<caller, route_data, waypoints, accumulated_distance, leg_i,
                   step_i, exception, poi_results, wp_i, stdout, calls, completed,
                   route_status, responses, trace>>

\* lines 191-192, 176: the loop takes the next waypoint, requests.get is issued
SearchNearbySend ==
    /\ pc = "search_loop"
    /\ wp_i <= Len(waypoints)
    /\ calls' = Append(calls, NearbyCall(SearchLocation(waypoints, wp_i)))
    /\ pc' = "await_search"
    /\ UNCHANGED <<caller, route_data, interval_miles, waypoints,
                   accumulated_distance, leg_i, step_i, exception, poi_results,
                   wp_i, stdout, completed, route_status, responses, trace>>

\* lines 176-181, 193: the response arrives, search_nearby returns, extend
SearchNearbyRecv ==
    /\ pc = "await_search"
    /\ \E resp \in SearchResponses :
        /\ responses' = Append(responses, resp)
        /\ poi_results' = Extend(poi_results,
                                 SearchNearbyResult(resp.status, resp.results))
        /\ stdout' = IF resp.status = StatusOk THEN stdout
                     ELSE Append(stdout, SearchErrorLine(resp.status))
    /\ completed' = completed + 1
    /\ wp_i' = wp_i + 1
    /\ pc' = "search_loop"
    /\ UNCHANGED <<caller, route_data, interval_miles, waypoints,
                   accumulated_distance, leg_i, step_i, exception, calls,
                   route_status, trace>>

\* lines 194, 235-239: search_waypoints returns and main prints every name
PrintResults ==
    /\ pc = "search_loop"
    /\ wp_i > Len(waypoints)
    /\ stdout' = stdout \o PrintedNames(poi_results)
    /\ pc' = "done"
    /\ UNCHANGED <<caller, route_data, interval_miles, waypoints,
                   accumulated_distance, leg_i, step_i, exception, poi_results,
                   wp_i, calls, completed, route_status, responses, trace>>

Next ==
    \/ FetchRouteSend
    \/ FetchRouteRecv
    \/ MainAbort
    \/ MainCalc
    \/ CalcEnter
    \/ CalcStep
    \/ CalcNextLeg
    \/ CalcReturn
    \/ SearchNearbySend
    \/ SearchNearbyRecv
    \/ PrintResults

Spec == Init /\ [][Next]_vars

----------------------------------------------------------------------------
(* Quantities the properties below are stated in *)

RECURSIVE SumValues(_)
SumValues(steps) ==
    IF steps = <<>> THEN 0 ELSE Head(steps).distance.value + SumValues(Tail(steps))

RECURSIVE SumLegs(_)
SumLegs(legs) ==
    IF legs = <<>> THEN 0 ELSE SumValues(Head(legs).steps) + SumLegs(Tail(legs))

\* D: the route's total step distance, in 1/MileNum mile
RouteDistance(data) == SumLegs(data.routes[1].legs) * MileDen

HasRoute == route_data.routes # <<>>

\* the call of calculate_waypoints has a positive interval and a route to walk
PositiveCall == HasRoute /\ interval_miles > 0

RECURSIVE CumAt(_)
\* cumulative step distance from the route's start to the end of the i-th processed step
CumAt(i) == IF i = 0 THEN 0 ELSE trace[i].distance + CumAt(i - 1)

RECURSIVE EmittedThrough(_)
\* number of waypoints emitted by the first i processed steps
EmittedThrough(i) == IF i = 0 THEN 0 ELSE trace[i].emitted + EmittedThrough(i - 1)

\* the processed step at which the k-th waypoint was emitted
StepOf(k) == CHOOSE i \in 1..Len(trace) : EmittedThrough(i - 1) < k /\ k <= EmittedThrough(i)

\* what a places response contributes to the output
Contribution(resp) == IF resp.status = 200 THEN resp.results ELSE <<>>

RECURSIVE Concat(_)
Concat(resps) ==
    IF resps = <<>> THEN <<>> ELSE Contribution(Head(resps)) \o Concat(Tail(resps))

IsPoiLine(line) == line.kind = "poi"
PoiLines == SelectSeq(stdout, IsPoiLine)

NameOrDefault(poi) == IF poi.has_name THEN poi.name ELSE "No name available"

----------------------------------------------------------------------------
(* Route.calculate_waypoints, checked under SpecWP *)

\* C1: for a positive interval_miles and a route whose step distances sum to D,
\* calculate_waypoints leaves exactly floor(D / interval_miles) waypoints.
C1_CountIsFloor ==
    (pc = "returned" /\ PositiveCall) =>
        Len(waypoints) = RouteDistance(route_data) \div Scaled(interval_miles)

\* C2: a step that leaves the accumulator at k >= 1 whole intervals emits k
\* waypoints, each equal to that step's end_location.
C2_EmitsPerWholeInterval ==
    PositiveCall =>
        \A i \in 1..Len(trace) :
            trace[i].added >= Scaled(interval_miles) =>
                /\ trace[i].emitted = trace[i].added \div Scaled(interval_miles)
                /\ \A k \in (EmittedThrough(i - 1) + 1)..EmittedThrough(i) :
                       waypoints[k] = trace[i].end_location

\* C3 as stated: consecutive waypoints are at least interval_miles apart, measured
\* as cumulative step distance between the ends of the steps that emitted them.
C3_ConsecutiveSpaced ==
    PositiveCall =>
        \A k \in 1..(Len(waypoints) - 1) :
            CumAt(StepOf(k + 1)) - CumAt(StepOf(k)) >= Scaled(interval_miles)

\* C3 as amended: the k-th waypoint is emitted at the end of a step that lies at
\* least k * interval_miles of cumulative step distance from the route's start.
C3_KthAfterKIntervals ==
    PositiveCall =>
        \A k \in 1..Len(waypoints) :
            CumAt(StepOf(k)) >= k * Scaled(interval_miles)

\* two consecutive waypoints closer than interval_miles, in a run where every
\* step left the accumulator below interval_miles
C3_Witness ==
    /\ pc = "returned"
    /\ PositiveCall
    /\ Len(waypoints) >= 2
    /\ \A i \in 1..Len(trace) : trace[i].acc_out < Scaled(interval_miles)
    /\ \E k \in 1..(Len(waypoints) - 1) :
           CumAt(StepOf(k + 1)) - CumAt(StepOf(k)) < Scaled(interval_miles)

\* C4: with interval_miles <= 0 the call fails with InvalidArgument: it does not
\* return normally and it produces no waypoints.
C4_NonPositiveRejected ==
    (HasRoute /\ interval_miles <= 0) =>
        /\ pc # "returned"
        /\ waypoints = <<>>
        /\ (pc = "raised" => exception = "InvalidArgument")

\* C8: with a positive interval_miles, a route whose total step distance is below
\* interval_miles (zero steps included) yields no waypoints, however it is split.
C8_ShortRouteEmpty ==
    (PositiveCall /\ RouteDistance(route_data) < Scaled(interval_miles)) =>
        waypoints = <<>>

\* a returned call on a route shorter than the interval whose distance lies in
\* two legs
C8_Witness ==
    /\ pc = "returned"
    /\ PositiveCall
    /\ RouteDistance(route_data) < Scaled(interval_miles)
    /\ Len(Legs(route_data)) = 2
    /\ \A l \in 1..2 : SumValues(Legs(route_data)[l].steps) > 0
    /\ waypoints = <<>>

\* C10: after each processed step 0 <= accumulated_distance < interval_miles, and
\* the remainder is carried unchanged into the next step, across legs too.
C10_RemainderBelowInterval ==
    PositiveCall =>
        \A i \in 1..Len(trace) :
            /\ 0 <= trace[i].acc_out
            /\ trace[i].acc_out < Scaled(interval_miles)
            /\ trace[i].acc_in = (IF i = 1 THEN 0 ELSE trace[i - 1].acc_out)
            /\ trace[i].added = trace[i].acc_in + trace[i].distance

----------------------------------------------------------------------------
(* main, checked under Spec *)

\* C5: a routing response with a non-success status aborts the run with the
\* failure message: no sampling, no places call, no POI name printed.
C5_RouteFailureAborts ==
    (route_status # 0 /\ route_status # 200) =>
        /\ pc \in {"main_check", "done"}
        /\ trace = <<>> /\ waypoints = <<>>
        /\ calls = <<DirectionsCall>>
        /\ responses = <<>>
        /\ PoiLines = <<>>
        /\ stdout[1] = RouteErrorLine(route_status)
        /\ (pc = "done" => stdout = <<RouteErrorLine(route_status), FailedLine>>)

C5_Witness == pc = "done" /\ route_status = 404

\* C6: a places response with a non-success status contributes nothing and does
\* not end the run: every waypoint is searched and the output holds exactly the
\* results of the successful waypoints, in waypoint order.
C6_FailedSearchSkipped ==
    /\ (responses # <<>> /\ responses[Len(responses)].status # 200) =>
           (exception = "none" /\ pc \in {"search_loop", "await_search", "done"})
    /\ (pc = "search_loop" /\ Len(responses) < Len(waypoints)) => ENABLED SearchNearbySend
    /\ (pc = "done" /\ route_status = 200) =>
           /\ Len(responses) = Len(waypoints)
           /\ PoiLines = [i \in 1..Len(Concat(responses)) |->
                             Line("poi", NameOrDefault(Concat(responses)[i]), 0)]

\* the first of three searches failed, the other two returned results
C6_Witness ==
    /\ pc = "done"
    /\ Len(responses) = 3
    /\ responses[1].status = 500 /\ responses[1].results # <<>>
    /\ responses[2].status = 200 /\ responses[2].results = <<Cafe, Unnamed>>
    /\ responses[3].status = 200 /\ responses[3].results = <<Unnamed, Cafe>>

\* C7: calls are issued one at a time: one routing call, then, only after it
\* succeeded, one places call per waypoint in waypoint order.
C7_CallsInSequence ==
    /\ Len(calls) - completed = (IF pc \in {"await_route", "await_search"} THEN 1 ELSE 0)
    /\ (pc = "main") = (calls = <<>>)
    /\ Len(calls) <= 1 + Len(waypoints)
    /\ \A i \in 1..Len(calls) :
           calls[i] = (IF i = 1 THEN DirectionsCall ELSE NearbyCall(waypoints[i - 1]))
    /\ Len(calls) >= 2 => route_status = 200
    /\ (pc = "done" /\ route_status = 200) => Len(calls) = 1 + Len(waypoints)

\* a completed run over three distinct waypoints
C7_Witness ==
    /\ pc = "done"
    /\ Len(waypoints) = 3
    /\ Len(calls) = 4
    /\ Cardinality({waypoints[i] : i \in 1..3}) = 3

\* C9: poi_results is the concatenation, in waypoint order, of the result lists
\* as returned, nothing dropped, reordered or deduplicated, and main prints one
\* line per entry in that order.
C9_ResultsConcatenated ==
    /\ poi_results = Concat(responses)
    /\ pc = "done" =>
           /\ Len(PoiLines) = Len(poi_results)
           /\ \A i \in 1..Len(poi_results) :
                  PoiLines[i].text = NameOrDefault(poi_results[i])

\* the same POI returned for two waypoints is printed twice
C9_Witness ==
    /\ pc = "done"
    /\ Len(responses) >= 2
    /\ responses[1] = [status |-> 200, results |-> <<Cafe, Unnamed>>]
    /\ responses[2] = [status |-> 200, results |-> <<Unnamed, Cafe>>]
    /\ SubSeq(poi_results, 1, 4) = <<Cafe, Unnamed, Unnamed, Cafe>>

====
